---- MODULE Spec2Model ----
(***************************************************************************)
(* Model of the Terraform ruleset: six rules run in registration order     *)
(* over one source text, reporting diagnostics into the context's sink.    *)
(*                                                                         *)
(* A source text is a sequence of Unicode scalar values (code points); a   *)
(* byte offset is an offset into its UTF-8 encoding.                       *)
(***************************************************************************)
EXTENDS Integers, Sequences, FiniteSets, TLC

VARIABLES
    text,          \* ctx.text: the source text of the file being checked
    diagnostics,   \* ctx's sink: the diagnostics reported so far, in order
    pc,            \* number of rules of the ruleset that have run on ctx
    previous,      \* the diagnostics of the previous complete check, or <<>>
    checked,       \* whether a complete check of the text has gone before
    offsets,       \* the last two byte offsets handed to offset_to_position
    positions,     \* the positions it returned for them
    file_uris,     \* the locators handed to preprocess_files
    preprocessed   \* <<>>, or the PreprocessingContext it returned

vars == <<text, diagnostics, pc, previous, checked, offsets, positions,
          file_uris, preprocessed>>

----------------------------------------------------------------------------
(* Characters *)

LF == 10          \* '\n'
CR == 13          \* '\r'
QUOTE == 34       \* '"'

\* char::len_utf8
len_utf8(ch) ==
    IF ch < 128 THEN 1 ELSE IF ch < 2048 THEN 2 ELSE IF ch < 65536 THEN 3 ELSE 4

\* The bytes of the characters lo..hi of s, summed by halves.
RECURSIVE BytesBetween(_, _, _)
BytesBetween(s, lo, hi) ==
    IF lo > hi THEN 0
    ELSE IF lo = hi THEN len_utf8(s[lo])
    ELSE BytesBetween(s, lo, (lo + hi) \div 2)
         + BytesBetween(s, (lo + hi) \div 2 + 1, hi)

\* str::len: the byte length of a string
str_len(s) == BytesBetween(s, 1, Len(s))

\* The byte offset at which the i-th character (1-based) of s starts;
\* ByteOffset(s, Len(s) + 1) = str_len(s).
ByteOffset(s, i) == BytesBetween(s, 1, i - 1)

----------------------------------------------------------------------------
(* utils.rs: TerraformUtils::offset_to_position *)

\* A mutation of advance: the line count is not incremented on '\n'.
advance_no_line(ch, pos) ==
    IF ch = LF
    THEN [line |-> pos.line, character |-> 0]
    ELSE [line |-> pos.line, character |-> pos.character + 1]

\* A mutation of advance: the column counts bytes, not scalars.
advance_bytes(ch, pos) ==
    IF ch = LF
    THEN [line |-> pos.line + 1, character |-> 0]
    ELSE [line |-> pos.line, character |-> pos.character + len_utf8(ch)]

\* The body of the loop over text.chars(): one character consumed.
advance(ch, pos) ==
    IF ch = LF
    THEN [line |-> pos.line + 1, character |-> 0]
    ELSE [line |-> pos.line, character |-> pos.character + 1]

\* One iteration of the loop over text.chars(), at the i-th character: the
\* loop stops once current_offset >= offset, and stays stopped.
offset_to_position_step(offset, txt, i, st) ==
    IF st.stopped \/ st.current_offset >= offset
    THEN [pos |-> st.pos, current_offset |-> st.current_offset, stopped |-> TRUE]
    ELSE [pos |-> advance(txt[i], st.pos),
          current_offset |-> st.current_offset + len_utf8(txt[i]),
          stopped |-> FALSE]

\* The iterations at the characters lo..hi in order, from state st (the
\* range is halved to keep the evaluation shallow).
RECURSIVE offset_to_position_loop(_, _, _, _, _)
offset_to_position_loop(offset, txt, lo, hi, st) ==
    IF st.stopped \/ lo > hi THEN st
    ELSE IF lo = hi THEN offset_to_position_step(offset, txt, lo, st)
    ELSE offset_to_position_loop(offset, txt, (lo + hi) \div 2 + 1, hi,
             offset_to_position_loop(offset, txt, lo, (lo + hi) \div 2, st))

offset_to_position(offset, txt) ==
    offset_to_position_loop(offset, txt, 1, Len(txt),
        [pos |-> [line |-> 0, character |-> 0], current_offset |-> 0,
         stopped |-> FALSE]).pos

\* Lexicographic order on positions: by line, then by character.
PosLeq(p, q) ==
    \/ p.line < q.line
    \/ p.line = q.line /\ p.character <= q.character

----------------------------------------------------------------------------
(* Strings as the standard library and the regex crate treat them *)

APOSTROPHE == 39  \* '\''

none == [found |-> FALSE]

\* str::lines: split at '\n'; a line's "\r\n" ending loses the '\r' too, a
\* last line without '\n' is kept as it is, and no empty last line is made.
RECURSIVE lines_from(_, _)
lines_from(txt, i) ==
    IF i > Len(txt) THEN <<>>
    ELSE LET nl == {j \in i..Len(txt) : txt[j] = LF}
         IN  IF nl = {} THEN <<SubSeq(txt, i, Len(txt))>>
             ELSE LET j == CHOOSE k \in nl : \A m \in nl : k <= m
                      e == IF j > i /\ txt[j - 1] = CR THEN j - 2 ELSE j - 1
                  IN  <<SubSeq(txt, i, e)>> \o lines_from(txt, j + 1)

lines(txt) == lines_from(txt, 1)

\* str::find: the byte offset of the first occurrence of needle, if any.
str_find(hay, needle) ==
    LET at == {i \in 1..(Len(hay) - Len(needle) + 1) :
                  SubSeq(hay, i, i + Len(needle) - 1) = needle}
    IN  IF at = {} THEN none
        ELSE [found |-> TRUE,
              offset |-> ByteOffset(hay, CHOOSE i \in at : \A j \in at : i <= j)]

\* str::contains for a single character
contains_char(s, ch) == \E i \in 1..Len(s) : s[i] = ch

\* str::trim_matches('"'): strips every leading and trailing '"'.
RECURSIVE trim_matches_quote(_)
trim_matches_quote(s) ==
    IF s = <<>> THEN s
    ELSE IF Head(s) = QUOTE THEN trim_matches_quote(Tail(s))
    ELSE IF s[Len(s)] = QUOTE THEN trim_matches_quote(SubSeq(s, 1, Len(s) - 1))
    ELSE s

IsDigit(c) == c >= 48 /\ c <= 57
IsLower(c) == c >= 97 /\ c <= 122
IsUpper(c) == c >= 65 /\ c <= 90

\* Simple case folding of the regex crate's (?i): ASCII letters, and the two
\* non-ASCII scalars that fold onto ASCII letters (U+017F onto s, U+212A onto k).
Fold(c) ==
    IF IsUpper(c) THEN c + 32
    ELSE IF c = 383 THEN 115
    ELSE IF c = 8490 THEN 107
    ELSE c

\* \s of the regex crate: Unicode White_Space.
IsSpace(c) ==
    \/ c \in {9, 10, 11, 12, 13, 32, 133, 160, 5760, 8232, 8233, 8239, 8287, 12288}
    \/ (c >= 8192 /\ c <= 8202)

IsQuote(c) == c = QUOTE \/ c = APOSTROPHE

\* The character classes of the credential patterns, under (?i).
InClass(class, c) ==
    CASE class = "not_quote" -> ~IsQuote(c)                       \* [^"']
      [] class = "alnum"     -> IsLower(Fold(c)) \/ IsDigit(c)    \* [A-Z0-9], [A-Za-z0-9]

\* The smallest member of a non-empty set of numbers.
Min(S) == CHOOSE x \in S : \A y \in S : x <= y

\* The end of the longest run of class characters of s that starts at i.
RunEnd(class, s, i) ==
    LET stop == {j \in i..Len(s) : ~InClass(class, s[j])}
    IN  IF stop = {} THEN Len(s) + 1 ELSE Min(stop)

\* \s*: the end of the longest run of white space of s that starts at i.
SkipSpace(s, i) ==
    LET stop == {j \in i..Len(s) : ~IsSpace(s[j])}
    IN  IF stop = {} THEN Len(s) + 1 ELSE Min(stop)

\* Whether the literal lit occurs in s at i, ignoring case.
LiteralAt(s, i, lit) ==
    /\ i + Len(lit) - 1 <= Len(s)
    /\ \A k \in 1..Len(lit) : Fold(s[i + k - 1]) = Fold(lit[k])

----------------------------------------------------------------------------
(* no_hardcoded_credentials.rs *)

\* The (pattern, message) pairs, in order. A pattern is
\*   (?i)(<keywords>)\s*=\s*["']<class>{<min>,}["']     or
\*   (?i)(<keywords>)\s*=\s*["']<literal>               (class = "literal").
patterns == <<
    [keywords |-> << <<112, 97, 115, 115, 119, 111, 114, 100>> (* "password" *), <<112, 97, 115, 115, 119, 100>> (* "passwd" *), <<112, 119, 100>> (* "pwd" *) >>,
     class |-> "not_quote", min |-> 1, literal |-> <<>>,
     message |-> <<72, 97, 114, 100, 99, 111, 100, 101, 100, 32, 112, 97, 115, 115, 119, 111, 114, 100, 32, 100, 101, 116, 101, 99, 116, 101, 100>> (* "Hardcoded password detected" *)],
    [keywords |-> << <<115, 101, 99, 114, 101, 116>> (* "secret" *), <<116, 111, 107, 101, 110>> (* "token" *), <<107, 101, 121>> (* "key" *) >>,
     class |-> "not_quote", min |-> 8, literal |-> <<>>,
     message |-> <<72, 97, 114, 100, 99, 111, 100, 101, 100, 32, 115, 101, 99, 114, 101, 116, 47, 116, 111, 107, 101, 110, 47, 107, 101, 121, 32, 100, 101, 116, 101, 99, 116, 101, 100>> (* "Hardcoded secret/token/key detected" *)],
    [keywords |-> << <<97, 99, 99, 101, 115, 115, 95, 107, 101, 121>> (* "access_key" *), <<97, 99, 99, 101, 115, 115, 45, 107, 101, 121>> (* "access-key" *) >>,
     class |-> "alnum", min |-> 16, literal |-> <<>>,
     message |-> <<72, 97, 114, 100, 99, 111, 100, 101, 100, 32, 97, 99, 99, 101, 115, 115, 32, 107, 101, 121, 32, 100, 101, 116, 101, 99, 116, 101, 100>> (* "Hardcoded access key detected" *)],
    [keywords |-> << <<112, 114, 105, 118, 97, 116, 101, 95, 107, 101, 121>> (* "private_key" *), <<112, 114, 105, 118, 97, 116, 101, 45, 107, 101, 121>> (* "private-key" *) >>,
     class |-> "literal", min |-> 0, literal |-> <<45, 45, 45, 45, 45, 66, 69, 71, 73, 78>> (* "-----BEGIN" *),
     message |-> <<72, 97, 114, 100, 99, 111, 100, 101, 100, 32, 112, 114, 105, 118, 97, 116, 101, 32, 107, 101, 121, 32, 100, 101, 116, 101, 99, 116, 101, 100>> (* "Hardcoded private key detected" *)],
    [keywords |-> << <<97, 112, 105, 95, 107, 101, 121>> (* "api_key" *), <<97, 112, 105, 45, 107, 101, 121>> (* "api-key" *) >>,
     class |-> "alnum", min |-> 20, literal |-> <<>>,
     message |-> <<72, 97, 114, 100, 99, 111, 100, 101, 100, 32, 65, 80, 73, 32, 107, 101, 121, 32, 100, 101, 116, 101, 99, 116, 101, 100>> (* "Hardcoded API key detected" *)] >>

\* The index after the keyword alternative of p that s holds at i, or 0. The
\* alternatives of one pattern differ before any of them ends, so at most one
\* of them is found at i.
KeywordEnd(p, s, i) ==
    LET ks == {k \in 1..Len(p.keywords) : LiteralAt(s, i, p.keywords[k])}
    IN  IF ks = {} THEN 0
        ELSE i + Len(p.keywords[CHOOSE k \in ks : \A m \in ks : k <= m])

\* The index after the match of p that starts at i in s, or 0 when p does
\* not match there. After the keyword every step is forced: white space
\* cannot be '=', '=' cannot be a quote, and the class run is followed by a
\* character outside the class.
MatchEnd(p, s, i) ==
    LET k  == KeywordEnd(p, s, i)
        eq == SkipSpace(s, k)
        q  == SkipSpace(s, eq + 1)
        r  == RunEnd(p.class, s, q + 1)
    IN  IF k = 0 \/ eq > Len(s) \/ s[eq] # 61 THEN 0
        ELSE IF q > Len(s) \/ ~IsQuote(s[q]) THEN 0
        ELSE IF p.class = "literal"
             THEN IF LiteralAt(s, q + 1, p.literal) THEN q + 1 + Len(p.literal) ELSE 0
        ELSE IF r - (q + 1) >= p.min /\ r <= Len(s) /\ IsQuote(s[r]) THEN r + 1
        ELSE 0

\* Regex::find from character i on: the leftmost match, as byte offsets
\* within the line; next is the character after the match.
credential_find_from(p, s, i) ==
    LET starts == {j \in i..Len(s) : MatchEnd(p, s, j) # 0}
    IN  IF starts = {} THEN none
        ELSE [found |-> TRUE,
              start |-> ByteOffset(s, Min(starts)),
              end   |-> ByteOffset(s, MatchEnd(p, s, Min(starts))),
              next  |-> MatchEnd(p, s, Min(starts))]

\* forseti_sdk's LineIndex::to_pos: the position of a byte offset.
LineIndex_to_pos(offset, txt) == offset_to_position(offset, txt)

\* ctx.text.lines().take(line_num).map(|l| l.len() + 1).sum()
RECURSIVE line_start(_, _)
line_start(ls, line_num) ==
    IF line_num = 0 THEN 0
    ELSE line_start(ls, line_num - 1) + str_len(ls[line_num]) + 1

credentials_diagnostic(message, txt, start, end) ==
    [rule_id  |-> "no-hardcoded-credentials",
     message  |-> message,
     severity |-> "error",
     range    |-> [start |-> LineIndex_to_pos(start, txt),
                   end   |-> LineIndex_to_pos(end, txt)],
     code     |-> "CREDENTIALS"]

\* A mutation of credentials_line: every match on the line is reported.
RECURSIVE credentials_line_every_match(_, _, _, _, _)
credentials_line_every_match(p, txt, ls, line_num, i) ==
    LET mat == credential_find_from(p, ls[line_num + 1], i)
    IN  IF ~mat.found THEN <<>>
        ELSE <<credentials_diagnostic(p.message, txt,
                   line_start(ls, line_num) + mat.start,
                   line_start(ls, line_num) + mat.end)>>
             \o credentials_line_every_match(p, txt, ls, line_num, mat.next)

\* The body of the loop over the lines, for pattern p and the line numbered
\* line_num (from 0): what it reports. The search starts at character i = 1.
credentials_line(p, txt, ls, line_num, i) ==
    LET mat == credential_find_from(p, ls[line_num + 1], i)
    IN  IF mat.found
        THEN <<credentials_diagnostic(p.message, txt,
                   line_start(ls, line_num) + mat.start,
                   line_start(ls, line_num) + mat.end)>>
        ELSE <<>>

RECURSIVE credentials_lines(_, _, _, _)
credentials_lines(p, txt, ls, line_num) ==
    IF line_num >= Len(ls) THEN <<>>
    ELSE credentials_line(p, txt, ls, line_num, 1)
         \o credentials_lines(p, txt, ls, line_num + 1)

RECURSIVE credentials_patterns(_, _, _)
credentials_patterns(txt, ls, k) ==
    IF k > Len(patterns) THEN <<>>
    ELSE credentials_lines(patterns[k], txt, ls, 0)
         \o credentials_patterns(txt, ls, k + 1)

\* NoHardcodedCredentialsRule::check: the diagnostics it reports for txt.
NoHardcodedCredentialsRule_check(txt) == credentials_patterns(txt, lines(txt), 1)

----------------------------------------------------------------------------
(* no_deprecated_interpolation.rs *)

\* The first index from i on at which s holds ch, or 0.
FirstAt(s, i, ch) ==
    LET at == {j \in i..Len(s) : s[j] = ch}
    IN  IF at = {} THEN 0 ELSE CHOOSE j \in at : \A m \in at : j <= m

\* "[^"]*\$\{([^}]+)\}[^"]*" with its opening quote at i and its "${" at j:
\* the index after the match, or 0. [^}]+ ends before the first '}' and must
\* hold a character; the closing quote is the first one after that '}'.
InterpolationEndFor(s, j) ==
    LET k == FirstAt(s, j + 2, 125)
        q == FirstAt(s, k + 1, QUOTE)
    IN  IF k = 0 \/ k = j + 2 THEN 0
        ELSE IF q = 0 THEN 0
        ELSE q + 1

\* The index after the match that starts at i, or 0. The first [^"]* is
\* greedy, so among the "${" it can reach the last one that leads to a match
\* is taken.
InterpolationMatchEnd(s, i) ==
    IF s[i] # QUOTE THEN 0
    ELSE LET nextq == FirstAt(s, i + 1, QUOTE)
             reach == IF nextq = 0 THEN Len(s) ELSE nextq - 1
             js == {j \in (i + 1)..(reach - 1) :
                       /\ s[j] = 36 /\ s[j + 1] = 123
                       /\ InterpolationEndFor(s, j) # 0}
         IN  IF js = {} THEN 0
             ELSE InterpolationEndFor(s, CHOOSE j \in js : \A m \in js : m <= j)

\* Regex::find_iter: the successive non-overlapping matches from character i
\* on, each [start, end) in characters of the line.
RECURSIVE deprecated_find_iter(_, _)
deprecated_find_iter(s, i) ==
    LET starts == {j \in i..Len(s) : InterpolationMatchEnd(s, j) # 0}
    IN  IF starts = {} THEN <<>>
        ELSE <<[start |-> Min(starts), end |-> InterpolationMatchEnd(s, Min(starts))]>>
             \o deprecated_find_iter(s, InterpolationMatchEnd(s, Min(starts)))

\* The test that skips a match: its text holds ' ', '+', '*', '/' or '('.
is_complex_interpolation(interpolation_content) ==
    \/ contains_char(interpolation_content, 32)
    \/ contains_char(interpolation_content, 43)
    \/ contains_char(interpolation_content, 42)
    \/ contains_char(interpolation_content, 47)
    \/ contains_char(interpolation_content, 40)

deprecated_diagnostic(txt, start, end) ==
    [rule_id  |-> "no-deprecated-interpolation",
     message  |-> <<68, 101, 112, 114, 101, 99, 97, 116, 101, 100, 32, 105, 110, 116, 101, 114, 112, 111, 108, 97, 116, 105, 111, 110, 32, 115, 121, 110, 116, 97, 120, 32, 102, 111, 117, 110, 100, 46, 32, 85, 115, 101, 32, 100, 105, 114, 101, 99, 116, 32, 118, 97, 114, 105, 97, 98, 108, 101, 32, 114, 101, 102, 101, 114, 101, 110, 99, 101, 32, 105, 110, 115, 116, 101, 97, 100>> (* "Deprecated interpolation syntax found. Use direct variable reference instead" *),
     severity |-> "warn",
     range    |-> [start |-> LineIndex_to_pos(start, txt),
                   end   |-> LineIndex_to_pos(end, txt)],
     code     |-> "DEPRECATED_INTERPOLATION"]

\* A mutation of deprecated_matches: only the first match of a line is kept.
deprecated_matches_first_only(line) ==
    LET mats == deprecated_find_iter(line, 1)
    IN  IF mats = <<>> THEN <<>> ELSE <<mats[1]>>

\* deprecated_pattern.find_iter(line)
deprecated_matches(line) == deprecated_find_iter(line, 1)

\* The body of the loop over the matches of one line, from the m-th on.
RECURSIVE deprecated_line(_, _, _, _, _)
deprecated_line(txt, ls, line_num, mats, m) ==
    IF m > Len(mats) THEN <<>>
    ELSE LET line == ls[line_num + 1]
             mat == mats[m]
         IN  (IF is_complex_interpolation(SubSeq(line, mat.start, mat.end - 1))
              THEN <<>>
              ELSE <<deprecated_diagnostic(txt,
                         line_start(ls, line_num) + ByteOffset(line, mat.start),
                         line_start(ls, line_num) + ByteOffset(line, mat.end))>>)
             \o deprecated_line(txt, ls, line_num, mats, m + 1)

RECURSIVE deprecated_lines(_, _, _)
deprecated_lines(txt, ls, line_num) ==
    IF line_num >= Len(ls) THEN <<>>
    ELSE deprecated_line(txt, ls, line_num, deprecated_matches(ls[line_num + 1]), 1)
         \o deprecated_lines(txt, ls, line_num + 1)

\* NoDeprecatedInterpolationRule::check: the diagnostics it reports for txt.
NoDeprecatedInterpolationRule_check(txt) == deprecated_lines(txt, lines(txt), 0)

----------------------------------------------------------------------------
(* utils.rs: TerraformUtils::parse_hcl. hcl::from_str::<Body> is modelled as *)
(* a tokenizer and a recursive-descent parser of the part of the language   *)
(* the rules look at: attributes, labelled blocks, nested blocks, string,   *)
(* number, identifier and object expressions, '#' and '//' comments. Text   *)
(* outside this part (unbalanced braces, an unterminated string, any other  *)
(* character) does not parse.                                               *)

IsIdStart(c) == IsLower(c) \/ IsUpper(c) \/ c = 95
IsIdChar(c) == IsIdStart(c) \/ IsDigit(c) \/ c = 45

RECURSIVE IdentEnd(_, _)
IdentEnd(s, i) == IF i > Len(s) \/ ~IsIdChar(s[i]) THEN i ELSE IdentEnd(s, i + 1)

RECURSIVE NumberEnd(_, _)
NumberEnd(s, i) ==
    IF i > Len(s) \/ ~(IsDigit(s[i]) \/ s[i] = 46) THEN i ELSE NumberEnd(s, i + 1)

\* The token of s that starts at i, and the index after it.
NextToken(s, i) ==
    LET c == s[i]
        eol == FirstAt(s, i, LF)
        closing == FirstAt(s, i + 1, QUOTE)
        content == SubSeq(s, i + 1, closing - 1)
    IN  IF c = 32 \/ c = 9 THEN [type |-> "skip", val |-> <<>>, next |-> i + 1]
        ELSE IF c = LF THEN [type |-> "nl", val |-> <<>>, next |-> i + 1]
        ELSE IF c = CR /\ i < Len(s) /\ s[i + 1] = LF
             THEN [type |-> "nl", val |-> <<>>, next |-> i + 2]
        ELSE IF c = 35 \/ (c = 47 /\ i < Len(s) /\ s[i + 1] = 47)
             THEN [type |-> "skip", val |-> <<>>,
                   next |-> IF eol = 0 THEN Len(s) + 1 ELSE eol]
        ELSE IF c = 123 THEN [type |-> "lbrace", val |-> <<>>, next |-> i + 1]
        ELSE IF c = 125 THEN [type |-> "rbrace", val |-> <<>>, next |-> i + 1]
        ELSE IF c = 61 THEN [type |-> "eq", val |-> <<>>, next |-> i + 1]
        ELSE IF c = 58 THEN [type |-> "colon", val |-> <<>>, next |-> i + 1]
        ELSE IF c = 44 THEN [type |-> "comma", val |-> <<>>, next |-> i + 1]
        ELSE IF c = QUOTE
             THEN IF closing = 0 \/ contains_char(content, LF)
                     \/ contains_char(content, 92)
                  THEN [type |-> "err", val |-> <<>>, next |-> Len(s) + 1]
                  ELSE IF str_find(content, <<36, 123>>).found
                  THEN [type |-> "template", val |-> content, next |-> closing + 1]
                  ELSE [type |-> "string", val |-> content, next |-> closing + 1]
        ELSE IF IsDigit(c)
             THEN [type |-> "number", val |-> SubSeq(s, i, NumberEnd(s, i) - 1),
                   next |-> NumberEnd(s, i)]
        ELSE IF IsIdStart(c)
             THEN [type |-> "ident", val |-> SubSeq(s, i, IdentEnd(s, i) - 1),
                   next |-> IdentEnd(s, i)]
        ELSE [type |-> "err", val |-> <<>>, next |-> Len(s) + 1]

\* The tokenizer at character i: a character inside the token before it is
\* passed over, any other starts the next token.
TokenizeStep(s, i, st) ==
    IF i < st.next THEN st
    ELSE LET t == NextToken(s, i)
         IN  [next |-> t.next,
              toks |-> IF t.type = "skip" THEN st.toks
                       ELSE Append(st.toks, [type |-> t.type, val |-> t.val])]

\* The tokenizer over the characters lo..hi in order, from state st (the
\* range is halved to keep the evaluation shallow).
RECURSIVE TokenizeRange(_, _, _, _)
TokenizeRange(s, lo, hi, st) ==
    IF st.next > hi \/ lo > hi THEN st
    ELSE IF lo = hi THEN TokenizeStep(s, lo, st)
    ELSE TokenizeRange(s, (lo + hi) \div 2 + 1, hi,
             TokenizeRange(s, lo, (lo + hi) \div 2, st))

Tokenize(s, i) == TokenizeRange(s, i, Len(s), [next |-> i, toks |-> <<>>]).toks

TokenType(toks, i) == IF i >= 1 /\ i <= Len(toks) THEN toks[i].type ELSE "eof"

RECURSIVE SkipNewlines(_, _)
SkipNewlines(toks, i) ==
    IF TokenType(toks, i) = "nl" THEN SkipNewlines(toks, i + 1) ELSE i

RECURSIVE SkipSeparators(_, _)
SkipSeparators(toks, i) ==
    IF TokenType(toks, i) \in {"nl", "comma"} THEN SkipSeparators(toks, i + 1) ELSE i

\* The index after the block labels (identifiers and strings) that start at i.
RECURSIVE LabelsEnd(_, _)
LabelsEnd(toks, i) ==
    IF TokenType(toks, i) \in {"ident", "string"} THEN LabelsEnd(toks, i + 1) ELSE i

\* BlockLabel::Identifier or BlockLabel::String; ObjectKey::Identifier, or
\* ObjectKey::Expression holding a string.
Labelled(tok) ==
    [variant |-> IF tok.type = "ident" THEN "Identifier" ELSE "String",
     value |-> tok.val]

failed == [ok |-> FALSE]

RECURSIVE parse_expr(_, _)
RECURSIVE parse_object(_, _)
RECURSIVE parse_body(_, _, _)

\* An expression at token i.
parse_expr(toks, i) ==
    LET t == TokenType(toks, i)
        obj == parse_object(toks, i + 1)
    IN  IF t = "string"
        THEN [ok |-> TRUE, next |-> i + 1,
              expr |-> [kind |-> "String", value |-> toks[i].val]]
        ELSE IF t = "number"
        THEN [ok |-> TRUE, next |-> i + 1, expr |-> [kind |-> "Number"]]
        ELSE IF t \in {"template", "ident"}
        THEN [ok |-> TRUE, next |-> i + 1, expr |-> [kind |-> "Other"]]
        ELSE IF t = "lbrace" /\ obj.ok
        THEN [ok |-> TRUE, next |-> obj.next,
              expr |-> [kind |-> "Object", entries |-> obj.entries]]
        ELSE failed

\* The entries of an object from token i to its closing brace.
parse_object(toks, i) ==
    LET k == SkipSeparators(toks, i)
        value == parse_expr(toks, k + 2)
        rest == parse_object(toks, value.next)
    IN  IF TokenType(toks, k) = "rbrace"
        THEN [ok |-> TRUE, next |-> k + 1, entries |-> <<>>]
        ELSE IF /\ TokenType(toks, k) \in {"ident", "string"}
                /\ TokenType(toks, k + 1) \in {"eq", "colon"}
                /\ value.ok
                /\ rest.ok
        THEN [ok |-> TRUE, next |-> rest.next,
              entries |-> <<[key |-> Labelled(toks[k]), expr |-> value.expr]>>
                          \o rest.entries]
        ELSE failed

\* The attributes and blocks of a body from token i on: to the end of the
\* text at top level, to the closing brace (not consumed) when nested.
parse_body(toks, i, nested) ==
    LET k == SkipNewlines(toks, i)
        t == TokenType(toks, k)
        value == parse_expr(toks, k + 2)
        after_attr == parse_body(toks, value.next, nested)
        open == LabelsEnd(toks, k + 1)
        inner == parse_body(toks, open + 1, TRUE)
        after_block == parse_body(toks, inner.next + 1, nested)
    IN  IF t = "eof"
        THEN IF nested THEN failed
             ELSE [ok |-> TRUE, next |-> k, attributes |-> <<>>, blocks |-> <<>>]
        ELSE IF t = "rbrace"
        THEN IF nested
             THEN [ok |-> TRUE, next |-> k, attributes |-> <<>>, blocks |-> <<>>]
             ELSE failed
        ELSE IF t = "ident" /\ TokenType(toks, k + 1) = "eq"
        THEN IF /\ value.ok
                /\ TokenType(toks, value.next) \in {"nl", "eof", "rbrace"}
                /\ after_attr.ok
             THEN [ok |-> TRUE, next |-> after_attr.next,
                   attributes |-> <<[key |-> toks[k].val, expr |-> value.expr]>>
                                  \o after_attr.attributes,
                   blocks |-> after_attr.blocks]
             ELSE failed
        ELSE IF t = "ident" /\ TokenType(toks, open) = "lbrace"
        THEN IF /\ inner.ok
                /\ TokenType(toks, inner.next) = "rbrace"
                /\ TokenType(toks, inner.next + 1) \in {"nl", "eof", "rbrace"}
                /\ after_block.ok
             THEN [ok |-> TRUE, next |-> after_block.next,
                   attributes |-> after_block.attributes,
                   blocks |-> <<[identifier |-> toks[k].val,
                                 labels |-> [n \in 1..(open - k - 1) |->
                                                Labelled(toks[k + n])],
                                 body |-> [attributes |-> inner.attributes,
                                           blocks |-> inner.blocks]]>>
                              \o after_block.blocks]
             ELSE failed
        ELSE failed

None == [some |-> FALSE]

\* TerraformUtils::parse_hcl: Some(body), or None when the text does not parse.
parse_hcl(txt) ==
    LET toks == Tokenize(txt, 1)
        parsed == parse_body(toks, 1, FALSE)
    IN  IF (\E i \in 1..Len(toks) : toks[i].type = "err") \/ ~parsed.ok
        THEN None
        ELSE [some |-> TRUE,
              body |-> [attributes |-> parsed.attributes, blocks |-> parsed.blocks]]

----------------------------------------------------------------------------
(* utils.rs: labels, keys, names and the diagnostics of the structural rules *)

\* str's Debug escaping of one character, for the characters a label or key
\* can hold here; escape_debug leaves every other printable character alone.
escape_debug_char(c) ==
    IF c = QUOTE THEN <<92, QUOTE>>
    ELSE IF c = 92 THEN <<92, 92>>
    ELSE IF c = LF THEN <<92, 110>>
    ELSE IF c = CR THEN <<92, 114>>
    ELSE IF c = 9 THEN <<92, 116>>
    ELSE <<c>>

RECURSIVE escape_debug(_)
escape_debug(s) ==
    IF s = <<>> THEN <<>> ELSE escape_debug_char(Head(s)) \o escape_debug(Tail(s))

\* <str as Debug>::fmt: the escaped text between double quotes.
str_debug(s) == <<QUOTE>> \o escape_debug(s) \o <<QUOTE>>

\* format!("{:?}", label) of a BlockLabel: the derived Debug of the enum, the
\* variant's name around the Debug of what it holds.
BlockLabel_debug(label) ==
    IF label.variant = "String"
    THEN <<83, 116, 114, 105, 110, 103, 40>> (* "String(" *) \o str_debug(label.value) \o <<41>> (* ")" *)
    ELSE <<73, 100, 101, 110, 116, 105, 102, 105, 101, 114, 40, 73, 100, 101, 110, 116, 105, 102, 105, 101, 114, 40>> (* "Identifier(Identifier(" *) \o str_debug(label.value) \o <<41, 41>> (* "))" *)

\* format!("{:?}", key) of an ObjectKey: ObjectKey::Identifier(Identifier),
\* or ObjectKey::Expression(Expression::String).
ObjectKey_debug(key) ==
    IF key.variant = "String"
    THEN <<69, 120, 112, 114, 101, 115, 115, 105, 111, 110, 40, 83, 116, 114, 105, 110, 103, 40>> (* "Expression(String(" *) \o str_debug(key.value) \o <<41, 41>> (* "))" *)
    ELSE <<73, 100, 101, 110, 116, 105, 102, 105, 101, 114, 40, 73, 100, 101, 110, 116, 105, 102, 105, 101, 114, 40>> (* "Identifier(Identifier(" *) \o str_debug(key.value) \o <<41, 41>> (* "))" *)

\* TerraformUtils::block_label_to_string
block_label_to_string(label) == trim_matches_quote(BlockLabel_debug(label))

\* TerraformUtils::debug_to_string, as called on an ObjectKey
debug_to_string(key) == trim_matches_quote(ObjectKey_debug(key))

NoName == [some |-> FALSE]

\* TerraformUtils::get_block_name
get_block_name(block, block_type) ==
    IF block_type \in { <<114, 101, 115, 111, 117, 114, 99, 101>> (* "resource" *), <<100, 97, 116, 97>> (* "data" *) }
    THEN IF Len(block.labels) >= 2
         THEN [some |-> TRUE, value |-> block_label_to_string(block.labels[2])]
         ELSE NoName
    ELSE IF block_type \in { <<118, 97, 114, 105, 97, 98, 108, 101>> (* "variable" *), <<111, 117, 116, 112, 117, 116>> (* "output" *), <<108, 111, 99, 97, 108, 115>> (* "locals" *) }
    THEN IF Len(block.labels) >= 1
         THEN [some |-> TRUE, value |-> block_label_to_string(block.labels[1])]
         ELSE NoName
    ELSE NoName

\* TerraformUtils::capitalize_first (char::to_uppercase of an ASCII letter)
capitalize_first(s) ==
    IF s = <<>> THEN <<>>
    ELSE <<IF IsLower(Head(s)) THEN Head(s) - 32 ELSE Head(s)>> \o Tail(s)

\* A mutation of find_or_zero: a text that is not found is placed at the end.
find_or_end(txt, needle) ==
    IF str_find(txt, needle).found THEN str_find(txt, needle).offset ELSE str_len(txt)

\* A mutation of create_provider_version_diagnostic: the end offset leaves
\* out provider_start.
create_provider_version_diagnostic_from_zero(provider_name, txt) ==
    LET provider_text == provider_name \o <<32, 61>> (* " =" *)
        provider_start == IF str_find(txt, provider_text).found
                          THEN str_find(txt, provider_text).offset ELSE 0
    IN  [rule_id  |-> "require-provider-version",
         message  |-> <<80, 114, 111, 118, 105, 100, 101, 114, 32, 39>> (* "Provider '" *) \o provider_name
                      \o <<39, 32, 115, 104, 111, 117, 108, 100, 32, 115, 112, 101, 99, 105, 102, 121, 32, 97, 32, 118, 101, 114, 115, 105, 111, 110, 32, 99, 111, 110, 115, 116, 114, 97, 105, 110, 116>> (* "' should specify a version constraint" *),
         severity |-> "warn",
         range    |-> [start |-> offset_to_position(provider_start, txt),
                       end   |-> offset_to_position(str_len(provider_name), txt)],
         code     |-> "PROVIDER_VERSION"]

\* text.find(..).unwrap_or(0)
find_or_zero(txt, needle) ==
    IF str_find(txt, needle).found THEN str_find(txt, needle).offset ELSE 0

\* TerraformUtils::create_missing_description_diagnostic
create_missing_description_diagnostic(rule_id, block_type, block_name, txt) ==
    LET block_text == block_type \o <<32, QUOTE>> \o block_name \o <<QUOTE>>
        block_start == find_or_zero(txt, block_text)
    IN  [rule_id  |-> rule_id,
         message  |-> capitalize_first(block_type) \o <<32, 39>> (* " '" *) \o block_name
                      \o <<39, 32, 115, 104, 111, 117, 108, 100, 32, 104, 97, 118, 101, 32, 97, 32, 100, 101, 115, 99, 114, 105, 112, 116, 105, 111, 110>> (* "' should have a description" *),
         severity |-> "warn",
         range    |-> [start |-> offset_to_position(block_start, txt),
                       end   |-> offset_to_position(block_start + str_len(block_text), txt)],
         code     |-> "MISSING_DESCRIPTION"]

\* TerraformUtils::create_naming_convention_diagnostic
create_naming_convention_diagnostic(block_type, block_name, txt) ==
    LET name_pattern == <<QUOTE>> \o block_name \o <<QUOTE>>
        name_start == IF str_find(txt, name_pattern).found
                      THEN str_find(txt, name_pattern).offset + 1
                      ELSE find_or_zero(txt, block_name)
    IN  [rule_id  |-> "resource-naming-convention",
         message  |-> block_type \o <<32, 110, 97, 109, 101, 32, 39>> (* " name '" *) \o block_name
                      \o <<39, 32, 115, 104, 111, 117, 108, 100, 32, 102, 111, 108, 108, 111, 119, 32, 115, 110, 97, 107, 101, 95, 99, 97, 115, 101, 32, 99, 111, 110, 118, 101, 110, 116, 105, 111, 110>> (* "' should follow snake_case convention" *),
         severity |-> "warn",
         range    |-> [start |-> offset_to_position(name_start, txt),
                       end   |-> offset_to_position(name_start + str_len(block_name), txt)],
         code     |-> "NAMING_CONVENTION"]

\* TerraformUtils::create_provider_version_diagnostic
create_provider_version_diagnostic(provider_name, txt) ==
    LET provider_text == provider_name \o <<32, 61>> (* " =" *)
        provider_start == find_or_zero(txt, provider_text)
    IN  [rule_id  |-> "require-provider-version",
         message  |-> <<80, 114, 111, 118, 105, 100, 101, 114, 32, 39>> (* "Provider '" *) \o provider_name
                      \o <<39, 32, 115, 104, 111, 117, 108, 100, 32, 115, 112, 101, 99, 105, 102, 121, 32, 97, 32, 118, 101, 114, 115, 105, 111, 110, 32, 99, 111, 110, 115, 116, 114, 97, 105, 110, 116>> (* "' should specify a version constraint" *),
         severity |-> "warn",
         range    |-> [start |-> offset_to_position(provider_start, txt),
                       end   |-> offset_to_position(provider_start + str_len(provider_name), txt)],
         code     |-> "PROVIDER_VERSION"]

\* A mutation of has_description_attribute: any attribute counts.
has_description_attribute_any(block) ==
    \E i \in 1..Len(block.body.attributes) : TRUE

\* TerraformUtils::has_description_attribute
has_description_attribute(block) ==
    \E i \in 1..Len(block.body.attributes) :
        block.body.attributes[i].key = <<100, 101, 115, 99, 114, 105, 112, 116, 105, 111, 110>> (* "description" *)

----------------------------------------------------------------------------
(* resource_naming_convention.rs *)

\* Regex ^[a-z][a-z0-9_]*$ on the whole name
valid_name_pattern_is_match(name) ==
    /\ name # <<>>
    /\ IsLower(name[1])
    /\ \A i \in 2..Len(name) : IsLower(name[i]) \/ IsDigit(name[i]) \/ name[i] = 95

\* The body of the loop over body.blocks(), for one block.
naming_block(block, txt) ==
    LET block_type == block.identifier
        name == get_block_name(block, block_type)
    IN  IF /\ block_type \in { <<114, 101, 115, 111, 117, 114, 99, 101>> (* "resource" *), <<100, 97, 116, 97>> (* "data" *), <<118, 97, 114, 105, 97, 98, 108, 101>> (* "variable" *), <<111, 117, 116, 112, 117, 116>> (* "output" *), <<108, 111, 99, 97, 108, 115>> (* "locals" *) }
           /\ name.some
           /\ ~valid_name_pattern_is_match(name.value)
        THEN <<create_naming_convention_diagnostic(block_type, name.value, txt)>>
        ELSE <<>>

RECURSIVE naming_blocks(_, _, _)
naming_blocks(blocks, txt, i) ==
    IF i > Len(blocks) THEN <<>>
    ELSE naming_block(blocks[i], txt) \o naming_blocks(blocks, txt, i + 1)

\* ResourceNamingConventionRule::check_hcl
ResourceNamingConventionRule_check_hcl(body, txt) == naming_blocks(body.blocks, txt, 1)

----------------------------------------------------------------------------
(* variable_description_required.rs, output_description_required.rs *)

\* The body of the loop over body.blocks(), for one block, of the rule
\* rule_id that looks at the blocks named block_type.
description_block(rule_id, block_type, block, txt) ==
    LET name == get_block_name(block, block_type)
    IN  IF /\ block.identifier = block_type
           /\ name.some
           /\ ~has_description_attribute(block)
        THEN <<create_missing_description_diagnostic(rule_id, block_type, name.value, txt)>>
        ELSE <<>>

RECURSIVE description_blocks(_, _, _, _, _)
description_blocks(rule_id, block_type, blocks, txt, i) ==
    IF i > Len(blocks) THEN <<>>
    ELSE description_block(rule_id, block_type, blocks[i], txt)
         \o description_blocks(rule_id, block_type, blocks, txt, i + 1)

\* VariableDescriptionRequiredRule::check_hcl
VariableDescriptionRequiredRule_check_hcl(body, txt) ==
    description_blocks("variable-description-required", <<118, 97, 114, 105, 97, 98, 108, 101>> (* "variable" *), body.blocks, txt, 1)

\* OutputDescriptionRequiredRule::check_hcl
OutputDescriptionRequiredRule_check_hcl(body, txt) ==
    description_blocks("output-description-required", <<111, 117, 116, 112, 117, 116>> (* "output" *), body.blocks, txt, 1)

----------------------------------------------------------------------------
(* require_provider_version.rs *)

\* The has_version test of check_provider_entries, for one attribute value.
has_version(expr) ==
    IF expr.kind = "Object"
    THEN \E i \in 1..Len(expr.entries) :
             debug_to_string(expr.entries[i].key) = <<118, 101, 114, 115, 105, 111, 110>> (* "version" *)
    ELSE FALSE

\* RequireProviderVersionRule::check_provider_entries, from attribute i on
RECURSIVE check_provider_entries(_, _, _)
check_provider_entries(attributes, txt, i) ==
    IF i > Len(attributes) THEN <<>>
    ELSE (IF ~has_version(attributes[i].expr)
          THEN <<create_provider_version_diagnostic(attributes[i].key, txt)>>
          ELSE <<>>)
         \o check_provider_entries(attributes, txt, i + 1)

\* RequireProviderVersionRule::check_required_providers_block, from nested
\* block i on
RECURSIVE check_required_providers_block(_, _, _)
check_required_providers_block(nested_blocks, txt, i) ==
    IF i > Len(nested_blocks) THEN <<>>
    ELSE (IF nested_blocks[i].identifier = <<114, 101, 113, 117, 105, 114, 101, 100, 95, 112, 114, 111, 118, 105, 100, 101, 114, 115>> (* "required_providers" *)
          THEN check_provider_entries(nested_blocks[i].body.attributes, txt, 1)
          ELSE <<>>)
         \o check_required_providers_block(nested_blocks, txt, i + 1)

RECURSIVE provider_blocks(_, _, _)
provider_blocks(blocks, txt, i) ==
    IF i > Len(blocks) THEN <<>>
    ELSE (IF blocks[i].identifier = <<116, 101, 114, 114, 97, 102, 111, 114, 109>> (* "terraform" *)
          THEN check_required_providers_block(blocks[i].body.blocks, txt, 1)
          ELSE <<>>)
         \o provider_blocks(blocks, txt, i + 1)

\* RequireProviderVersionRule::check_hcl
RequireProviderVersionRule_check_hcl(body, txt) == provider_blocks(body.blocks, txt, 1)

----------------------------------------------------------------------------
(* utils.rs: HclRule::check, and the rules' check *)

check_hcl(rule, body, txt) ==
    CASE rule = "require-provider-version" ->
             RequireProviderVersionRule_check_hcl(body, txt)
      [] rule = "resource-naming-convention" ->
             ResourceNamingConventionRule_check_hcl(body, txt)
      [] rule = "variable-description-required" ->
             VariableDescriptionRequiredRule_check_hcl(body, txt)
      [] rule = "output-description-required" ->
             OutputDescriptionRequiredRule_check_hcl(body, txt)

\* A mutation of HclRule_check: a text that does not parse is reported.
HclRule_check_reports_failure(rule, txt) ==
    IF parse_hcl(txt).some
    THEN check_hcl(rule, parse_hcl(txt).body, txt)
    ELSE <<[rule_id |-> rule, message |-> <<105, 110, 118, 97, 108, 105, 100, 32, 72, 67, 76>> (* "invalid HCL" *), severity |-> "error",
            range |-> [start |-> offset_to_position(0, txt),
                       end |-> offset_to_position(0, txt)],
            code |-> "PARSE_ERROR"]>>

\* HclRule::check: what the rule reports for txt; nothing when txt does not
\* parse.
HclRule_check(rule, txt) ==
    IF parse_hcl(txt).some
    THEN check_hcl(rule, parse_hcl(txt).body, txt)
    ELSE <<>>

----------------------------------------------------------------------------
(* main.rs: the ruleset, and one file's check *)

\* A mutation of create_terraform_ruleset: two rules registered the other
\* way round.
create_terraform_ruleset_swapped ==
    << "no-hardcoded-credentials",
       "no-deprecated-interpolation",
       "require-provider-version",
       "resource-naming-convention",
       "variable-description-required",
       "output-description-required" >>

\* create_terraform_ruleset: the rules in the order of the with_rule calls.
create_terraform_ruleset ==
    << "no-hardcoded-credentials",
       "require-provider-version",
       "no-deprecated-interpolation",
       "resource-naming-convention",
       "variable-description-required",
       "output-description-required" >>

\* The rule the ruleset runs next on the context: the rules run one after
\* the other in registration order, each to completion.
NextRule ==
    IF pc < Len(create_terraform_ruleset)
    THEN create_terraform_ruleset[pc + 1]
    ELSE "none"

\* ctx.report of every diagnostic of the rule that has just run
Report(reported) ==
    /\ diagnostics' = diagnostics \o reported
    /\ pc' = pc + 1
    /\ UNCHANGED <<text, previous, checked, offsets, positions, file_uris, preprocessed>>

----------------------------------------------------------------------------
(* The source texts: documents of up to MaxItems snippets, every line ended *)
(* by "\n" or every line ended by "\r\n".                                   *)

MaxItems == 2

Snippets == <<
    \* 1: the password example
    << <<112, 97, 115, 115, 119, 111, 114, 100, 32, 61, 32, 34, 115, 117, 112, 51, 114, 83, 101, 99, 114, 101, 116, 33, 34>> (* "password = \"sup3rSecret!\"" *) >>,
    \* 2: one pattern twice on a line, two patterns on one line, and the
    \*    API-key and private-key patterns
    << <<99, 114, 101, 100, 115, 32, 61, 32, 123, 32, 112, 119, 100, 32, 61, 32, 34, 97, 34, 44, 32, 80, 65, 83, 83, 87, 68, 32, 61, 32, 34, 98, 99, 100, 34, 32, 125>> (* "creds = { pwd = \"a\", PASSWD = \"bcd\" }" *),
       <<97, 99, 99, 101, 115, 115, 95, 107, 101, 121, 32, 61, 32, 34, 65, 66, 67, 68, 69, 70, 71, 72, 73, 74, 75, 76, 77, 78, 79, 80, 34>> (* "access_key = \"ABCDEFGHIJKLMNOP\"" *),
       <<97, 112, 105, 95, 107, 101, 121, 32, 61, 32, 34, 97, 98, 99, 100, 101, 102, 103, 104, 105, 106, 48, 49, 50, 51, 52, 53, 54, 55, 56, 57, 34>> (* "api_key = \"abcdefghij0123456789\"" *),
       <<112, 114, 105, 118, 97, 116, 101, 95, 107, 101, 121, 32, 61, 32, 34, 45, 45, 45, 45, 45, 66, 69, 71, 73, 78, 34>> (* "private_key = \"-----BEGIN\"" *) >>,
    \* 3: a simple interpolation
    << <<118, 97, 108, 117, 101, 32, 61, 32, 34, 36, 123, 118, 97, 114, 46, 110, 97, 109, 101, 125, 34>> (* "value = \"${var.name}\"" *) >>,
    \* 4: a complex interpolation, and three interpolations on one line
    << <<118, 97, 108, 117, 101, 32, 61, 32, 34, 36, 123, 118, 97, 114, 46, 110, 97, 109, 101, 32, 43, 32, 49, 125, 34>> (* "value = \"${var.name + 1}\"" *),
       <<116, 32, 61, 32, 123, 32, 97, 32, 61, 32, 34, 36, 123, 97, 125, 34, 44, 32, 98, 32, 61, 32, 34, 36, 123, 102, 40, 98, 41, 125, 34, 44, 32, 99, 32, 61, 32, 34, 36, 123, 99, 125, 34, 32, 125>> (* "t = { a = \"${a}\", b = \"${f(b)}\", c = \"${c}\" }" *) >>,
    \* 5: resources with a bad and a good name, and a block without labels
    << <<114, 101, 115, 111, 117, 114, 99, 101, 32, 34, 97, 119, 115, 95, 105, 110, 115, 116, 97, 110, 99, 101, 34, 32, 34, 66, 97, 100, 78, 97, 109, 101, 34, 32, 123, 125>> (* "resource \"aws_instance\" \"BadName\" {}" *),
       <<114, 101, 115, 111, 117, 114, 99, 101, 32, 34, 97, 119, 115, 95, 105, 110, 115, 116, 97, 110, 99, 101, 34, 32, 34, 103, 111, 111, 100, 95, 110, 97, 109, 101, 34, 32, 123, 125>> (* "resource \"aws_instance\" \"good_name\" {}" *),
       <<108, 111, 99, 97, 108, 115, 32, 123, 125>> (* "locals {}" *) >>,
    \* 6: a variable and an output without description, a variable without
    \*    label, a variable with another attribute only
    << <<118, 97, 114, 105, 97, 98, 108, 101, 32, 34, 120, 34, 32, 123, 125>> (* "variable \"x\" {}" *),
       <<111, 117, 116, 112, 117, 116, 32, 34, 79, 117, 116, 34, 32, 123, 125>> (* "output \"Out\" {}" *),
       <<118, 97, 114, 105, 97, 98, 108, 101, 32, 123, 125>> (* "variable {}" *),
       <<118, 97, 114, 105, 97, 98, 108, 101, 32, 34, 119, 34, 32, 123, 32, 100, 101, 102, 97, 117, 108, 116, 32, 61, 32, 49, 32, 125>> (* "variable \"w\" { default = 1 }" *) >>,
    \* 7: a variable and an output with a description
    << <<118, 97, 114, 105, 97, 98, 108, 101, 32, 34, 121, 34, 32, 123>> (* "variable \"y\" {" *),
       <<32, 32, 100, 101, 115, 99, 114, 105, 112, 116, 105, 111, 110, 32, 61, 32, 34, 100, 34>> (* "  description = \"d\"" *),
       <<125>> (* "}" *),
       <<111, 117, 116, 112, 117, 116, 32, 34, 122, 34, 32, 123, 32, 100, 101, 115, 99, 114, 105, 112, 116, 105, 111, 110, 32, 61, 32, 34, 100, 34, 32, 125>> (* "output \"z\" { description = \"d\" }" *) >>,
    \* 8: providers without a version, one written with two spaces before =
    << <<116, 101, 114, 114, 97, 102, 111, 114, 109, 32, 123>> (* "terraform {" *),
       <<32, 32, 114, 101, 113, 117, 105, 114, 101, 100, 95, 112, 114, 111, 118, 105, 100, 101, 114, 115, 32, 123>> (* "  required_providers {" *),
       <<32, 32, 32, 32, 97, 119, 115, 32, 61, 32, 123, 32, 115, 111, 117, 114, 99, 101, 32, 61, 32, 34, 104, 97, 115, 104, 105, 99, 111, 114, 112, 47, 97, 119, 115, 34, 32, 125>> (* "    aws = { source = \"hashicorp/aws\" }" *),
       <<32, 32, 32, 32, 114, 97, 110, 100, 111, 109, 32, 61, 32, 34, 51, 46, 48, 34>> (* "    random = \"3.0\"" *),
       <<32, 32, 32, 32, 116, 108, 115, 32, 32, 61, 32, 123, 32, 115, 111, 117, 114, 99, 101, 32, 61, 32, 34, 104, 97, 115, 104, 105, 99, 111, 114, 112, 47, 116, 108, 115, 34, 32, 125>> (* "    tls  = { source = \"hashicorp/tls\" }" *),
       <<32, 32, 125>> (* "  }" *),
       <<125>> (* "}" *) >>,
    \* 9: providers with a version, the key bare and quoted
    << <<116, 101, 114, 114, 97, 102, 111, 114, 109, 32, 123>> (* "terraform {" *),
       <<32, 32, 114, 101, 113, 117, 105, 114, 101, 100, 95, 112, 114, 111, 118, 105, 100, 101, 114, 115, 32, 123>> (* "  required_providers {" *),
       <<32, 32, 32, 32, 97, 119, 115, 32, 61, 32, 123, 32, 115, 111, 117, 114, 99, 101, 32, 61, 32, 34, 104, 97, 115, 104, 105, 99, 111, 114, 112, 47, 97, 119, 115, 34, 44, 32, 118, 101, 114, 115, 105, 111, 110, 32, 61, 32, 34, 126, 62, 32, 52, 46, 48, 34, 32, 125>> (* "    aws = { source = \"hashicorp/aws\", version = \"~> 4.0\" }" *),
       <<32, 32, 32, 32, 103, 99, 112, 32, 61, 32, 123, 32, 34, 118, 101, 114, 115, 105, 111, 110, 34, 32, 61, 32, 34, 49, 34, 32, 125>> (* "    gcp = { \"version\" = \"1\" }" *),
       <<32, 32, 125>> (* "  }" *),
       <<125>> (* "}" *) >>,
    \* 10: an unbalanced brace, with a credential and an interpolation
    << <<118, 97, 114, 105, 97, 98, 108, 101, 32, 34, 98, 114, 111, 107, 101, 110, 34, 32, 123>> (* "variable \"broken\" {" *),
       <<32, 32, 112, 119, 100, 32, 61, 32, 34, 36, 123, 120, 125, 34>> (* "  pwd = \"${x}\"" *) >> >>

\* A document is a selection of at most MaxItems snippets, in corpus order.
Documents ==
    {doc \in UNION {[1..n -> 1..Len(Snippets)] : n \in 0..MaxItems} :
        \A i, j \in 1..Len(doc) : i < j => doc[i] < doc[j]}

LineEndings == {<<LF>>, <<CR, LF>>}

RECURSIVE JoinLines(_, _)
JoinLines(ls, ending) ==
    IF ls = <<>> THEN <<>> ELSE Head(ls) \o ending \o JoinLines(Tail(ls), ending)

RECURSIVE DocumentText(_, _)
DocumentText(doc, ending) ==
    IF doc = <<>> THEN <<>>
    ELSE JoinLines(Snippets[Head(doc)], ending) \o DocumentText(Tail(doc), ending)

Init ==
    /\ \E doc \in Documents : \E ending \in LineEndings :
           text = DocumentText(doc, ending)
    /\ diagnostics = <<>>
    /\ pc = 0
    /\ previous = <<>>
    /\ checked = FALSE
    /\ offsets = <<>>
    /\ positions = <<>>
    /\ file_uris = <<>>
    /\ preprocessed = <<>>

RunNoHardcodedCredentials ==
    /\ NextRule = "no-hardcoded-credentials"
    /\ Report(NoHardcodedCredentialsRule_check(text))

RunRequireProviderVersion ==
    /\ NextRule = "require-provider-version"
    /\ Report(HclRule_check("require-provider-version", text))

RunNoDeprecatedInterpolation ==
    /\ NextRule = "no-deprecated-interpolation"
    /\ Report(NoDeprecatedInterpolationRule_check(text))

RunResourceNamingConvention ==
    /\ NextRule = "resource-naming-convention"
    /\ Report(HclRule_check("resource-naming-convention", text))

RunVariableDescriptionRequired ==
    /\ NextRule = "variable-description-required"
    /\ Report(HclRule_check("variable-description-required", text))

RunOutputDescriptionRequired ==
    /\ NextRule = "output-description-required"
    /\ Report(HclRule_check("output-description-required", text))

\* The host checks the unchanged text again, with a fresh context.
CheckAgain ==
    /\ NextRule = "none"
    /\ previous' = diagnostics
    /\ checked' = TRUE
    /\ diagnostics' = <<>>
    /\ pc' = 0
    /\ UNCHANGED <<text, offsets, positions, file_uris, preprocessed>>

Next ==
    \/ RunNoHardcodedCredentials
    \/ RunRequireProviderVersion
    \/ RunNoDeprecatedInterpolation
    \/ RunResourceNamingConvention
    \/ RunVariableDescriptionRequired
    \/ RunOutputDescriptionRequired
    \/ CheckAgain

Spec == Init /\ [][Next]_vars

----------------------------------------------------------------------------
(* What the claims speak of, stated from the text and the parsed document   *)

CredentialsRule == "no-hardcoded-credentials"
ProviderRule == "require-provider-version"
InterpolationRule == "no-deprecated-interpolation"
NamingRule == "resource-naming-convention"
VariableRule == "variable-description-required"
OutputRule == "output-description-required"

StructuralRules == {ProviderRule, NamingRule, VariableRule, OutputRule}

\* Whether the rule has run on the context of the current check.
RuleHasRun(rule) == \E k \in 1..pc : create_terraform_ruleset[k] = rule

\* The diagnostics of ds that the rule reported, in order.
ByRule(ds, rule) == SelectSeq(ds, LAMBDA d : d.rule_id = rule)

\* The j-th smallest member of a set of numbers.
Nth(S, j) == CHOOSE n \in S : Cardinality({m \in S : m <= n}) = j

\* The index in txt of the first character of line n (from 0): the
\* character after the n-th '\n'.
TrueLineStart(txt, n) ==
    IF n = 0 THEN 1 ELSE 1 + Nth({i \in 1..Len(txt) : txt[i] = LF}, n)

\* The range of the characters [cs, ce) of line n within the whole text.
TrueRange(txt, n, cs, ce) ==
    [start |-> LineIndex_to_pos(ByteOffset(txt, TrueLineStart(txt, n) + cs - 1), txt),
     end   |-> LineIndex_to_pos(ByteOffset(txt, TrueLineStart(txt, n) + ce - 1), txt)]

\* Where pattern k matches in a line, and the range of its first match in
\* line n of txt.
MatchStarts(k, line) == {i \in 1..Len(line) : MatchEnd(patterns[k], line, i) # 0}

FirstMatchRange(txt, n, k, line) ==
    TrueRange(txt, n, Min(MatchStarts(k, line)),
              MatchEnd(patterns[k], line, Min(MatchStarts(k, line))))

\* The lines (numbered from 0) of ls that pattern k matches.
MatchingLines(k, ls) == {n \in 0..(Len(ls) - 1) : MatchStarts(k, ls[n + 1]) # {}}

\* The (pattern, line) pairs of ls with a match.
MatchingPairs(ls) ==
    UNION {{<<k, n>> : n \in MatchingLines(k, ls)} : k \in 1..Len(patterns)}

\* Whether a '\r' stands before line n of txt.
CarriageReturnBefore(txt, n) == \E i \in 1..(TrueLineStart(txt, n) - 1) : txt[i] = CR

\* The matches of the interpolation pattern in a line whose text holds none
\* of ' ', '+', '*', '/', '(' (as indices into the line's matches), and those
\* that hold one.
SimpleInterpolations(line) ==
    LET mats == deprecated_find_iter(line, 1)
    IN  {m \in 1..Len(mats) :
            \A i \in mats[m].start..(mats[m].end - 1) : line[i] \notin {32, 43, 42, 47, 40}}

ComplexInterpolations(line) ==
    (1..Len(deprecated_find_iter(line, 1))) \ SimpleInterpolations(line)

AllSimpleInterpolations(ls) ==
    UNION {{<<n, m>> : m \in SimpleInterpolations(ls[n])} : n \in 1..Len(ls)}

\* The blocks of the sequence bs named id, as indices.
BlocksNamed(bs, id) == {i \in 1..Len(bs) : bs[i].identifier = id}

\* The label that names block b: the second of a resource or data block, the
\* first of a variable, output or locals block; 0 when the block has no such
\* label or is of another kind.
NameLabel(b) ==
    IF b.identifier \in { <<114, 101, 115, 111, 117, 114, 99, 101>> (* "resource" *), <<100, 97, 116, 97>> (* "data" *) }
    THEN IF Len(b.labels) >= 2 THEN 2 ELSE 0
    ELSE IF b.identifier \in { <<118, 97, 114, 105, 97, 98, 108, 101>> (* "variable" *), <<111, 117, 116, 112, 117, 116>> (* "output" *), <<108, 111, 99, 97, 108, 115>> (* "locals" *) }
    THEN IF Len(b.labels) >= 1 THEN 1 ELSE 0
    ELSE 0

\* ^[a-z][a-z0-9_]*$
SnakeCase(name) ==
    /\ Len(name) >= 1
    /\ name[1] \in 97..122
    /\ \A i \in 2..Len(name) : name[i] \in (97..122) \cup (48..57) \cup {95}

\* The blocks of bs that have a name, and those of them whose name, the
\* plain label string, is not snake_case.
NamedBlocks(bs) == {i \in 1..Len(bs) : NameLabel(bs[i]) # 0}

BadlyNamedBlocks(bs) ==
    {i \in NamedBlocks(bs) : ~SnakeCase(bs[i].labels[NameLabel(bs[i])].value)}

HasDescription(b) ==
    \E a \in 1..Len(b.body.attributes) : b.body.attributes[a].key = <<100, 101, 115, 99, 114, 105, 112, 116, 105, 111, 110>> (* "description" *)

\* The blocks of bs named id that have a first label and no attribute with
\* key description, and those that have such an attribute.
UndescribedBlocks(bs, id) ==
    {i \in BlocksNamed(bs, id) : Len(bs[i].labels) >= 1 /\ ~HasDescription(bs[i])}

DescribedBlocks(bs, id) == {i \in BlocksNamed(bs, id) : HasDescription(bs[i])}

\* The provider attributes of the blocks bs: <<t, r, a>> is attribute a of
\* the required_providers block r of the terraform block t.
ProviderAttributes(bs) ==
    UNION {UNION {{<<t, r, a>> : a \in 1..Len(bs[t].body.blocks[r].body.attributes)} :
                   r \in BlocksNamed(bs[t].body.blocks, <<114, 101, 113, 117, 105, 114, 101, 100, 95, 112, 114, 111, 118, 105, 100, 101, 114, 115>> (* "required_providers" *))} :
           t \in BlocksNamed(bs, <<116, 101, 114, 114, 97, 102, 111, 114, 109>> (* "terraform" *))}

ProviderAttribute(bs, tra) == bs[tra[1]].body.blocks[tra[2]].body.attributes[tra[3]]

\* A provider is versioned iff its value is an object with a key version.
Versioned(attr) ==
    /\ attr.expr.kind = "Object"
    /\ \E e \in 1..Len(attr.expr.entries) : attr.expr.entries[e].key.value = <<118, 101, 114, 115, 105, 111, 110>> (* "version" *)

ProviderMessage(name) ==
    <<80, 114, 111, 118, 105, 100, 101, 114, 32, 39>> (* "Provider '" *) \o name \o <<39, 32, 115, 104, 111, 117, 108, 100, 32, 115, 112, 101, 99, 105, 102, 121, 32, 97, 32, 118, 101, 114, 115, 105, 111, 110, 32, 99, 111, 110, 115, 116, 114, 97, 105, 110, 116>> (* "' should specify a version constraint" *)

----------------------------------------------------------------------------
(* The claims about the text-pattern rules *)

\* C1: when the Hardcoded-Credentials rule reports a diagnostic for a match
\* of a pattern on a line, whatever the line and the line terminators, the
\* diagnostic's range is exactly the matched substring: it starts at the
\* match's first byte and ends after its last byte within the whole text,
\* on the line where the match was found.
C1_RangeIsExactMatch ==
    RuleHasRun(CredentialsRule) =>
        LET ls == lines(text)
            ds == ByRule(diagnostics, CredentialsRule)
        IN  \A k \in 1..Len(patterns) :
                LET dk == SelectSeq(ds, LAMBDA d : d.message = patterns[k].message)
                    ml == MatchingLines(k, ls)
                IN  \A j \in 1..Len(dk) :
                        j <= Cardinality(ml) =>
                            /\ dk[j].range =
                                   FirstMatchRange(text, Nth(ml, j), k, ls[Nth(ml, j) + 1])
                            /\ dk[j].range.start.line = Nth(ml, j)
                            /\ dk[j].range.end.line = Nth(ml, j)

\* C6: the Hardcoded-Credentials rule reports exactly one diagnostic for
\* every (pattern, line) pair where the pattern matches, however often it
\* matches there, so distinct patterns matching one line each report their
\* own; the diagnostic is for the first match of the pattern on the line
\* (its range is that match's wherever no '\r' comes before the line), and
\* has severity error and code CREDENTIALS.
C6_OnePerPatternAndLine ==
    RuleHasRun(CredentialsRule) =>
        LET ls == lines(text)
            ds == ByRule(diagnostics, CredentialsRule)
        IN  /\ Len(ds) = Cardinality(MatchingPairs(ls))
            /\ \A i \in 1..Len(ds) :
                   /\ ds[i].severity = "error"
                   /\ ds[i].code = "CREDENTIALS"
            /\ \A k \in 1..Len(patterns) :
                   LET dk == SelectSeq(ds, LAMBDA d : d.message = patterns[k].message)
                       ml == MatchingLines(k, ls)
                   IN  /\ Len(dk) = Cardinality(ml)
                       /\ \A j \in 1..Len(dk) :
                              ~CarriageReturnBefore(text, Nth(ml, j)) =>
                                  dk[j].range =
                                      FirstMatchRange(text, Nth(ml, j), k, ls[Nth(ml, j) + 1])

\* The rule has run on a text with a line that one pattern matches twice and
\* a line that two patterns match, and has reported.
C6_Witness ==
    /\ RuleHasRun(CredentialsRule)
    /\ \E n \in 1..Len(lines(text)) : \E k \in 1..Len(patterns) :
           Cardinality(MatchStarts(k, lines(text)[n])) >= 2
    /\ \E n \in 1..Len(lines(text)) : \E k1, k2 \in 1..Len(patterns) :
           /\ k1 # k2
           /\ MatchStarts(k1, lines(text)[n]) # {}
           /\ MatchStarts(k2, lines(text)[n]) # {}
    /\ Len(ByRule(diagnostics, CredentialsRule)) >= 3

\* C7: for every line the Deprecated-Interpolation rule reports one warn
\* diagnostic, code DEPRECATED_INTERPOLATION, for each non-overlapping match
\* of a quoted string holding ${...} whose text holds none of ' ', '+', '*',
\* '/', '(', and none for a match that holds one of them; every such match
\* of a line is reported, not only the first.
C7_EverySimpleInterpolation ==
    RuleHasRun(InterpolationRule) =>
        LET ls == lines(text)
            ds == ByRule(diagnostics, InterpolationRule)
        IN  /\ Len(ds) = Cardinality(AllSimpleInterpolations(ls))
            /\ \A i \in 1..Len(ds) :
                   /\ ds[i].severity = "warn"
                   /\ ds[i].code = "DEPRECATED_INTERPOLATION"

\* The rule has run on a text with a line that holds two simple
\* interpolations and a complex one, and has reported the two.
C7_Witness ==
    /\ RuleHasRun(InterpolationRule)
    /\ \E n \in 1..Len(lines(text)) :
           /\ Cardinality(SimpleInterpolations(lines(text)[n])) >= 2
           /\ ComplexInterpolations(lines(text)[n]) # {}
    /\ Len(lines(text)) = 2
    /\ Len(ByRule(diagnostics, InterpolationRule)) = 2

----------------------------------------------------------------------------
(* The claims about the structural rules *)

\* C2: on a parsed document the Require-Provider-Version rule reports a
\* diagnostic for a provider attribute of a required_providers block of a
\* terraform block if and only if the provider is not versioned: for every
\* provider name, as many diagnostics naming it as unversioned attributes of
\* that name, so none for an object that holds a version key.
C2_UnversionedProvidersOnly ==
    (RuleHasRun(ProviderRule) /\ parse_hcl(text).some) =>
        LET bs == parse_hcl(text).body.blocks
            ds == ByRule(diagnostics, ProviderRule)
            attrs == ProviderAttributes(bs)
        IN  /\ Len(ds) = Cardinality({tra \in attrs : ~Versioned(ProviderAttribute(bs, tra))})
            /\ \A tra \in attrs :
                   LET name == ProviderAttribute(bs, tra).key
                   IN  Len(SelectSeq(ds, LAMBDA d : d.message = ProviderMessage(name)))
                       = Cardinality({o \in attrs :
                             /\ ProviderAttribute(bs, o).key = name
                             /\ ~Versioned(ProviderAttribute(bs, o))})

\* C3: on a parsed document the Naming-Convention rule reports exactly one
\* warn diagnostic, code NAMING_CONVENTION, for each top-level resource,
\* data, variable, output or locals block whose name (the plain string of
\* its second label for resource and data, of its first label otherwise)
\* does not match ^[a-z][a-z0-9_]*$, and none for a block whose name matches.
C3_OnePerBadName ==
    (RuleHasRun(NamingRule) /\ parse_hcl(text).some) =>
        LET bs == parse_hcl(text).body.blocks
            ds == ByRule(diagnostics, NamingRule)
        IN  /\ Len(ds) = Cardinality(BadlyNamedBlocks(bs))
            /\ \A i \in 1..Len(ds) :
                   /\ ds[i].severity = "warn"
                   /\ ds[i].code = "NAMING_CONVENTION"

\* C4: when the text does not parse, the four structural rules report
\* nothing and leave the sink as it was, while the two text-pattern rules
\* report what the text alone makes them report: one diagnostic for every
\* (pattern, line) pair with a match, one for every simple interpolation.
C4_UnparsableText ==
    ~parse_hcl(text).some =>
        LET ls == lines(text)
        IN  /\ \A i \in 1..Len(diagnostics) :
                   diagnostics[i].rule_id \notin StructuralRules
            /\ Len(diagnostics) =
                   (IF RuleHasRun(CredentialsRule)
                    THEN Cardinality(MatchingPairs(ls)) ELSE 0)
                   + (IF RuleHasRun(InterpolationRule)
                      THEN Cardinality(AllSimpleInterpolations(ls)) ELSE 0)
            /\ Len(ByRule(diagnostics, CredentialsRule)) =
                   IF RuleHasRun(CredentialsRule)
                   THEN Cardinality(MatchingPairs(ls)) ELSE 0

\* Every rule has run on a text that does not parse, and the sink holds a
\* diagnostic of each text-pattern rule.
C4_Witness ==
    /\ ~parse_hcl(text).some
    /\ pc = Len(create_terraform_ruleset)
    /\ ByRule(diagnostics, CredentialsRule) # <<>>
    /\ ByRule(diagnostics, InterpolationRule) # <<>>

\* C5: on a parsed document the Variable-Description rule (the
\* Output-Description rule) reports exactly one diagnostic, code
\* MISSING_DESCRIPTION, for each top-level variable (output) block that has
\* a first label and no attribute with key description, and none for a
\* block with such an attribute; a second check of the unchanged text
\* reports the same diagnostics.
C5_OnePerUndescribedBlock ==
    parse_hcl(text).some =>
        LET bs == parse_hcl(text).body.blocks
            vs == ByRule(diagnostics, VariableRule)
            os == ByRule(diagnostics, OutputRule)
        IN  /\ RuleHasRun(VariableRule) =>
                   /\ Len(vs) = Cardinality(UndescribedBlocks(bs, <<118, 97, 114, 105, 97, 98, 108, 101>> (* "variable" *)))
                   /\ \A i \in 1..Len(vs) : vs[i].code = "MISSING_DESCRIPTION"
            /\ RuleHasRun(OutputRule) =>
                   /\ Len(os) = Cardinality(UndescribedBlocks(bs, <<111, 117, 116, 112, 117, 116>> (* "output" *)))
                   /\ \A i \in 1..Len(os) : os[i].code = "MISSING_DESCRIPTION"
            /\ (checked /\ RuleHasRun(VariableRule)) =>
                   vs = ByRule(previous, VariableRule)
            /\ (checked /\ RuleHasRun(OutputRule)) =>
                   os = ByRule(previous, OutputRule)

\* Both rules have run a second time on a document that holds a variable
\* and an output without description and a variable and an output with one.
C5_Witness ==
    /\ checked
    /\ RuleHasRun(VariableRule) /\ RuleHasRun(OutputRule)
    /\ parse_hcl(text).some
    /\ LET bs == parse_hcl(text).body.blocks
       IN  /\ UndescribedBlocks(bs, <<118, 97, 114, 105, 97, 98, 108, 101>> (* "variable" *)) # {}
           /\ UndescribedBlocks(bs, <<111, 117, 116, 112, 117, 116>> (* "output" *)) # {}
           /\ DescribedBlocks(bs, <<118, 97, 114, 105, 97, 98, 108, 101>> (* "variable" *)) # {}
           /\ DescribedBlocks(bs, <<111, 117, 116, 112, 117, 116>> (* "output" *)) # {}
    /\ Len(ByRule(diagnostics, VariableRule)) = 2
    /\ Len(ByRule(diagnostics, OutputRule)) = 1

----------------------------------------------------------------------------
(* The claim about the order of one file's check *)

\* The registration order the claim states.
StatedOrder ==
    <<CredentialsRule, ProviderRule, InterpolationRule, NamingRule, VariableRule,
      OutputRule>>

StatedIndex(rule) == CHOOSE k \in 1..Len(StatedOrder) : StatedOrder[k] = rule

\* The index of the pattern whose message a credentials diagnostic carries.
PatternIndex(d) == CHOOSE k \in 1..Len(patterns) : patterns[k].message = d.message

\* C8: one file's check runs the six rules in the order hardcoded
\* credentials, provider version, deprecated interpolation, naming
\* convention, variable description, output description, each to completion
\* before the next: after k rules the sink holds the diagnostics of the
\* first k rules only, those of an earlier rule before those of a later one,
\* and each rule's in discovery order (the credentials rule's pattern by
\* pattern, the interpolation rule's by position); a second check of the
\* same text yields the same list.
C8_RegistrationOrder ==
    /\ \A i \in 1..Len(diagnostics) : StatedIndex(diagnostics[i].rule_id) <= pc
    /\ \A i, j \in 1..Len(diagnostics) :
           i < j =>
               /\ StatedIndex(diagnostics[i].rule_id) <= StatedIndex(diagnostics[j].rule_id)
               /\ (diagnostics[i].rule_id = CredentialsRule
                   /\ diagnostics[j].rule_id = CredentialsRule)
                      => PatternIndex(diagnostics[i]) <= PatternIndex(diagnostics[j])
               /\ (diagnostics[i].rule_id = InterpolationRule
                   /\ diagnostics[j].rule_id = InterpolationRule)
                      => PosLeq(diagnostics[i].range.start, diagnostics[j].range.start)
    /\ \A k \in 1..Len(StatedOrder) :
           pc >= k => RuleHasRun(StatedOrder[k])
    /\ (checked /\ pc = Len(StatedOrder)) => diagnostics = previous

\* A second complete check whose list holds diagnostics of all six rules.
C8_Witness ==
    /\ checked
    /\ pc = Len(StatedOrder)
    /\ Cardinality({diagnostics[i].rule_id : i \in 1..Len(diagnostics)}) >= 4
    /\ Len(diagnostics) >= 5

----------------------------------------------------------------------------
(* The claims about the ranges of the structural rules *)

\* needle occurs in txt
Occurs(txt, needle) ==
    \E i \in 1..(Len(txt) - Len(needle) + 1) :
        SubSeq(txt, i, i + Len(needle) - 1) = needle

DocumentStart == [line |-> 0, character |-> 0]

\* The name a message quotes between its first before characters and its
\* last after characters.
QuotedName(message, before, after) ==
    SubSeq(message, before + 1, Len(message) - after)

\* The text a description rule searches for: <block_type> "<name>", with the
\* name its message quotes.
DescriptionSearchText(d, block_type) ==
    block_type \o <<32, QUOTE>>
    \o QuotedName(d.message, Len(block_type) + 2, Len(<<39, 32, 115, 104, 111, 117, 108, 100, 32, 104, 97, 118, 101, 32, 97, 32, 100, 101, 115, 99, 114, 105, 112, 116, 105, 111, 110>> (* "' should have a description" *)))
    \o <<QUOTE>>

\* The name the message of a naming diagnostic quotes.
NamingSearchName(d) ==
    LET kinds == {k \in { <<114, 101, 115, 111, 117, 114, 99, 101>> (* "resource" *), <<100, 97, 116, 97>> (* "data" *), <<118, 97, 114, 105, 97, 98, 108, 101>> (* "variable" *), <<111, 117, 116, 112, 117, 116>> (* "output" *), <<108, 111, 99, 97, 108, 115>> (* "locals" *) } :
                     SubSeq(d.message, 1, Len(k) + 7) = k \o <<32, 110, 97, 109, 101, 32, 39>> (* " name '" *)}
        kind == CHOOSE k \in kinds : TRUE
    IN  QuotedName(d.message, Len(kind) + 7, Len(<<39, 32, 115, 104, 111, 117, 108, 100, 32, 102, 111, 108, 108, 111, 119, 32, 115, 110, 97, 107, 101, 95, 99, 97, 115, 101, 32, 99, 111, 110, 118, 101, 110, 116, 105, 111, 110>> (* "' should follow snake_case convention" *)))

\* The text the provider rule searches for: <provider_name> =
ProviderSearchText(d) ==
    QuotedName(d.message, Len(<<80, 114, 111, 118, 105, 100, 101, 114, 32, 39>> (* "Provider '" *)), Len(<<39, 32, 115, 104, 111, 117, 108, 100, 32, 115, 112, 101, 99, 105, 102, 121, 32, 97, 32, 118, 101, 114, 115, 105, 111, 110, 32, 99, 111, 110, 115, 116, 114, 97, 105, 110, 116>> (* "' should specify a version constraint" *)))
    \o <<32, 61>> (* " =" *)

\* The diagnostic is one whose searched text does not occur in txt.
SpanMissing(d, txt) ==
    IF d.rule_id = VariableRule THEN ~Occurs(txt, DescriptionSearchText(d, <<118, 97, 114, 105, 97, 98, 108, 101>> (* "variable" *)))
    ELSE IF d.rule_id = OutputRule THEN ~Occurs(txt, DescriptionSearchText(d, <<111, 117, 116, 112, 117, 116>> (* "output" *)))
    ELSE IF d.rule_id = NamingRule
    THEN /\ ~Occurs(txt, <<QUOTE>> \o NamingSearchName(d) \o <<QUOTE>>)
         /\ ~Occurs(txt, NamingSearchName(d))
    ELSE IF d.rule_id = ProviderRule THEN ~Occurs(txt, ProviderSearchText(d))
    ELSE FALSE

\* C11: when a structural rule finds a violation and the text it searches
\* for to place the range does not occur in the source, the diagnostic is
\* still reported, and its range starts at line 0, character 0: every
\* undescribed variable and output, every badly named block and every
\* unversioned provider has its diagnostic, and every structural diagnostic
\* whose searched text is missing starts at the document start.
C11_MissingSpanFallsBack ==
    parse_hcl(text).some =>
        LET bs == parse_hcl(text).body.blocks
        IN  /\ RuleHasRun(VariableRule) =>
                   Len(ByRule(diagnostics, VariableRule))
                       = Cardinality(UndescribedBlocks(bs, <<118, 97, 114, 105, 97, 98, 108, 101>> (* "variable" *)))
            /\ RuleHasRun(OutputRule) =>
                   Len(ByRule(diagnostics, OutputRule))
                       = Cardinality(UndescribedBlocks(bs, <<111, 117, 116, 112, 117, 116>> (* "output" *)))
            /\ RuleHasRun(NamingRule) =>
                   Len(ByRule(diagnostics, NamingRule))
                       >= Cardinality(BadlyNamedBlocks(bs))
            /\ RuleHasRun(ProviderRule) =>
                   Len(ByRule(diagnostics, ProviderRule))
                       >= Cardinality({tra \in ProviderAttributes(bs) :
                              ~Versioned(ProviderAttribute(bs, tra))})
            /\ \A i \in 1..Len(diagnostics) :
                   (diagnostics[i].rule_id \in StructuralRules
                        /\ SpanMissing(diagnostics[i], text))
                   => diagnostics[i].range.start = DocumentStart

\* Every rule has run on a text that does not start with a block name or a
\* provider; a description diagnostic, a naming diagnostic and a provider
\* diagnostic whose searched text is missing have been reported at the
\* document start, and a provider diagnostic whose text occurs has not.
C11_Witness ==
    /\ pc = Len(create_terraform_ruleset)
    /\ \E i \in 1..Len(diagnostics) :
           /\ diagnostics[i].rule_id = VariableRule
           /\ SpanMissing(diagnostics[i], text)
           /\ diagnostics[i].range.start = DocumentStart
    /\ \E i \in 1..Len(diagnostics) :
           /\ diagnostics[i].rule_id = NamingRule
           /\ SpanMissing(diagnostics[i], text)
           /\ diagnostics[i].range.start = DocumentStart
    /\ \E i \in 1..Len(diagnostics) :
           /\ diagnostics[i].rule_id = ProviderRule
           /\ SpanMissing(diagnostics[i], text)
           /\ diagnostics[i].range.start = DocumentStart
    /\ \E i \in 1..Len(diagnostics) :
           /\ diagnostics[i].rule_id = ProviderRule
           /\ ~SpanMissing(diagnostics[i], text)
           /\ diagnostics[i].range.start # DocumentStart

\* C12: every diagnostic that any of the six rules reports has a range whose
\* start is not after its end, by line and then character, the ranges that
\* fall back to the document start included.
C12_StartNotAfterEnd ==
    \A i \in 1..Len(diagnostics) :
        PosLeq(diagnostics[i].range.start, diagnostics[i].range.end)

\* Every rule has run on a text with CRLF line endings; a text-pattern rule
\* has reported a match below the first line, one structural range fell
\* back to the document start and one provider range lies further down the
\* text.
C12_Witness ==
    /\ pc = Len(create_terraform_ruleset)
    /\ \E i \in 1..Len(text) : text[i] = CR
    /\ \E i \in 1..Len(diagnostics) :
           /\ diagnostics[i].rule_id \in {CredentialsRule, InterpolationRule}
           /\ diagnostics[i].range.end.line > 0
           /\ diagnostics[i].range.start # diagnostics[i].range.end
    /\ \E i \in 1..Len(diagnostics) :
           /\ diagnostics[i].rule_id \in StructuralRules
           /\ SpanMissing(diagnostics[i], text)
           /\ diagnostics[i].range.start = DocumentStart
    /\ \E i \in 1..Len(diagnostics) :
           /\ diagnostics[i].rule_id = ProviderRule
           /\ diagnostics[i].range.start.line > 0
           /\ diagnostics[i].range.start # diagnostics[i].range.end
----------------------------------------------------------------------------
(* The position conversion on its own: texts over a small alphabet that    *)
(* holds '\n' and characters of 1, 2 and 4 UTF-8 bytes.                    *)

MaxLen == 3       \* longest text of the conversion's specification
Slack == 2        \* how far past the end of the text offsets are drawn

PosAlphabet == {LF, 97, 233, 128512}     \* '\n', 'a', U+00E9, U+1F600

PosTexts == UNION {[1..n -> PosAlphabet] : n \in 0..MaxLen}

InitPos ==
    /\ text \in PosTexts
    /\ diagnostics = <<>>
    /\ pc = 0
    /\ previous = <<>>
    /\ checked = FALSE
    /\ offsets = <<>>
    /\ positions = <<>>
    /\ file_uris = <<>>
    /\ preprocessed = <<>>

\* One call offset_to_position(o, text); the last two calls are kept.
Convert(o) ==
    /\ offsets' = IF Len(offsets) < 2 THEN Append(offsets, o)
                  ELSE <<offsets[2], o>>
    /\ positions' = IF Len(positions) < 2
                    THEN Append(positions, offset_to_position(o, text))
                    ELSE <<positions[2], offset_to_position(o, text)>>
    /\ UNCHANGED <<text, diagnostics, pc, previous, checked, file_uris, preprocessed>>

NextPos == \E o \in 0..(str_len(text) + Slack) : Convert(o)

SpecPos == InitPos /\ [][NextPos]_vars

----------------------------------------------------------------------------
(* Claims about offset_to_position (checked under SpecPos) *)

\* The characters of txt that start before byte offset o.
StartBefore(txt, o) == {i \in 1..Len(txt) : ByteOffset(txt, i) < o}

\* The last '\n' that starts before byte offset o, or 0.
LastNewlineBefore(txt, o) ==
    LET nl == {i \in StartBefore(txt, o) : txt[i] = LF}
    IN  IF nl = {} THEN 0 ELSE CHOOSE i \in nl : \A j \in nl : j <= i

\* The position the contract gives for byte offset o, by counting.
CountedPosition(txt, o) ==
    [line      |-> Cardinality({i \in StartBefore(txt, o) : txt[i] = LF}),
     character |-> Cardinality({i \in StartBefore(txt, o) :
                                   i > LastNewlineBefore(txt, o)})]

\* Whether byte offset o falls strictly inside a multi-byte character.
InsideCharacter(txt, o) ==
    \E i \in 1..Len(txt) :
        ByteOffset(txt, i) < o /\ o < ByteOffset(txt, i) + len_utf8(txt[i])

\* C9: for byte offsets o1 < o2 of one text (past the end and inside a
\* multi-byte character included), offset_to_position(o1) is not
\* lexicographically greater than offset_to_position(o2).
C9_Monotonic ==
    Len(offsets) = 2 =>
        \A i, j \in 1..2 :
            offsets[i] < offsets[j] => PosLeq(positions[i], positions[j])

\* Two conversions, the first inside a multi-byte character after a newline
\* and the second past the end of the text, with different results.
C9_Witness ==
    /\ Len(offsets) = 2
    /\ offsets[1] < offsets[2]
    /\ InsideCharacter(text, offsets[1])
    /\ offsets[2] > str_len(text)
    /\ positions[1].line > 0
    /\ positions[1] # positions[2]

\* C10: offset_to_position returns line = the number of '\n' that start
\* before the offset and character = the number of scalars that start before
\* the offset and after the last such '\n'; every offset at or beyond the
\* byte length of the text gets the position of the byte length itself.
C10_CountsScalars ==
    \A k \in 1..Len(offsets) :
        /\ positions[k] = CountedPosition(text, offsets[k])
        /\ positions[k].line \in Nat /\ positions[k].character \in Nat
        /\ offsets[k] >= str_len(text) =>
               positions[k] = offset_to_position(str_len(text), text)

\* A conversion past the end of a text whose last line holds a multi-byte
\* character, so that bytes and scalars differ.
C10_Witness ==
    /\ Len(offsets) = 2
    /\ offsets[2] > str_len(text)
    /\ positions[2].line = 1
    /\ positions[2].character = 2
    /\ str_len(text) > Len(text)
    /\ \E i \in 1..Len(text) : text[i] > 127 /\ i > LastNewlineBefore(text, offsets[2])

----------------------------------------------------------------------------
(* main.rs: preprocess_files and infer_language.  An Option is <<>> (None) *)
(* or <<v>> (Some(v)).                                                     *)

SLASH == 47   \* '/'
DOT == 46     \* '.'

\* str::starts_with
starts_with(s, prefix) ==
    Len(s) >= Len(prefix) /\ SubSeq(s, 1, Len(prefix)) = prefix

\* uri.strip_prefix("file://").unwrap_or(uri)
strip_file_prefix(uri) ==
    IF starts_with(uri, <<102, 105, 108, 101, 58, 47, 47>> (* "file://" *))
    THEN SubSeq(uri, Len(<<102, 105, 108, 101, 58, 47, 47>> (* "file://" *)) + 1, Len(uri))
    ELSE uri

\* The pieces of a path between its '/' separators.
RECURSIVE path_pieces(_)
path_pieces(path) ==
    LET at == {i \in 1..Len(path) : path[i] = SLASH}
    IN  IF at = {} THEN <<path>>
        ELSE <<SubSeq(path, 1, Min(at) - 1)>>
             \o path_pieces(SubSeq(path, Min(at) + 1, Len(path)))

\* Path::file_name: the last component, when it is a normal one; empty
\* pieces and "." pieces are not components.
path_file_name(path) ==
    LET comps == SelectSeq(path_pieces(path), LAMBDA c : c # <<>> /\ c # <<DOT>>)
    IN  IF comps = <<>> \/ comps[Len(comps)] = <<DOT, DOT>> THEN <<>>
        ELSE <<comps[Len(comps)]>>

\* Path::extension: what follows the last '.' of the file name, when the
\* name has a '.' that is not its first character.
path_extension(path) ==
    LET name == path_file_name(path)
    IN  IF name = <<>> THEN <<>>
        ELSE LET dots == {i \in 1..Len(name[1]) : name[1][i] = DOT}
                 last == CHOOSE i \in dots : \A j \in dots : j <= i
             IN  IF dots = {} \/ last = 1 THEN <<>>
                 ELSE <<SubSeq(name[1], last + 1, Len(name[1]))>>

\* infer_language
infer_language(uri) ==
    LET path == IF starts_with(uri, <<102, 105, 108, 101, 58, 47, 47>> (* "file://" *)) THEN strip_file_prefix(uri) ELSE uri
        ext == path_extension(path)
    IN  IF ext = << <<116, 102>> (* "tf" *) >> THEN <<"terraform">>
        ELSE IF ext = << <<116, 102, 118, 97, 114, 115>> (* "tfvars" *) >> THEN <<"terraform-vars">>
        ELSE <<>>

\* The context map of one locator; on_disk tells whether fs::metadata
\* succeeds for its path (the size is left out).
file_context(uri, on_disk) ==
    IF starts_with(uri, <<102, 105, 108, 101, 58, 47, 47>> (* "file://" *))
    THEN LET path == strip_file_prefix(uri)
             ext == path_extension(path)
         IN  [has_metadata        |-> on_disk,
              extension           |-> ext,
              terraform_file_type |-> IF ext = << <<116, 102>> (* "tf" *) >> THEN <<"configuration">>
                                      ELSE IF ext = << <<116, 102, 118, 97, 114, 115>> (* "tfvars" *) >> THEN <<"variables">>
                                      ELSE <<>>,
              terraform_generated |-> str_find(path, <<47, 46, 116, 101, 114, 114, 97, 102, 111, 114, 109, 47>> (* "/.terraform/" *)).found]
    ELSE [has_metadata        |-> FALSE,
          extension           |-> <<>>,
          terraform_file_type |-> <<>>,
          terraform_generated |-> FALSE]

\* The loop over file_uris, from the i-th locator on; st holds files,
\* tf_files and tfvars_files.
RECURSIVE preprocess_loop(_, _, _, _)
preprocess_loop(uris, on_disk, i, st) ==
    IF i > Len(uris) THEN st
    ELSE LET uri == uris[i]
             context == file_context(uri, i \in on_disk)
         IN  preprocess_loop(uris, on_disk, i + 1,
                 [files        |-> Append(st.files,
                                       [uri      |-> uri,
                                        content  |-> <<>>,
                                        language |-> infer_language(uri),
                                        context  |-> context]),
                  tf_files     |-> st.tf_files
                                   + (IF context.terraform_file_type = <<"configuration">>
                                      THEN 1 ELSE 0),
                  tfvars_files |-> st.tfvars_files
                                   + (IF context.terraform_file_type = <<"variables">>
                                      THEN 1 ELSE 0)])

\* TerraformRuleset::preprocess_files: the PreprocessingContext it returns.
preprocess_files(uris, on_disk) ==
    LET st == preprocess_loop(uris, on_disk, 1,
                              [files |-> <<>>, tf_files |-> 0, tfvars_files |-> 0])
    IN  [ruleset_id     |-> "terraform",
         files          |-> st.files,
         global_context |-> [total_files  |-> Len(st.files),
                             tf_files     |-> st.tf_files,
                             tfvars_files |-> st.tfvars_files,
                             ruleset_type |-> "terraform"]]

----------------------------------------------------------------------------
(* Batches of locators handed to preprocess_files *)

MaxFiles == 2     \* most locators in one batch

Locators ==
    { <<102, 105, 108, 101, 58, 47, 47, 47, 109, 47, 109, 97, 105, 110, 46, 116, 102>> (* "file:///m/main.tf" *),
      <<109, 97, 105, 110, 46, 116, 102>> (* "main.tf" *),
      <<102, 105, 108, 101, 58, 47, 47, 47, 109, 47, 112, 114, 111, 100, 46, 116, 102, 118, 97, 114, 115>> (* "file:///m/prod.tfvars" *),
      <<109, 47, 112, 114, 111, 100, 46, 116, 102, 118, 97, 114, 115>> (* "m/prod.tfvars" *),
      <<102, 105, 108, 101, 58, 47, 47, 47, 109, 47, 82, 69, 65, 68, 77, 69, 46, 109, 100>> (* "file:///m/README.md" *),
      <<102, 105, 108, 101, 58, 47, 47, 47, 109, 47, 46, 116, 102>> (* "file:///m/.tf" *),
      <<102, 105, 108, 101, 58, 47, 47, 47, 109, 47, 77, 97, 107, 101, 102, 105, 108, 101>> (* "file:///m/Makefile" *),
      <<102, 105, 108, 101, 58, 47, 47, 47, 109, 47, 46, 116, 101, 114, 114, 97, 102, 111, 114, 109, 47, 120, 46, 116, 102>> (* "file:///m/.terraform/x.tf" *),
      <<102, 105, 108, 101, 58, 47, 47, 47, 109, 47, 97, 46, 116, 102, 47>> (* "file:///m/a.tf/" *) }

Batches == UNION {[1..n -> Locators] : n \in 0..MaxFiles}

InitFiles ==
    /\ file_uris \in Batches
    /\ preprocessed = <<>>
    /\ text = <<>>
    /\ diagnostics = <<>>
    /\ pc = 0
    /\ previous = <<>>
    /\ checked = FALSE
    /\ offsets = <<>>
    /\ positions = <<>>

\* One call preprocess_files(file_uris), with the files of on_disk present.
PreprocessFiles ==
    /\ preprocessed = <<>>
    /\ \E on_disk \in SUBSET (1..Len(file_uris)) :
           preprocessed' = <<preprocess_files(file_uris, on_disk)>>
    /\ UNCHANGED <<text, diagnostics, pc, previous, checked, offsets, positions,
                   file_uris>>

NextFiles == PreprocessFiles

SpecFiles == InitFiles /\ [][NextFiles]_vars

----------------------------------------------------------------------------
(* The claim about the batch counts (checked under SpecFiles) *)

\* The locator, without its file:// prefix if it has one, names a file
\* <stem>.<ext> with a stem that is not empty.
HasExtension(uri, ext) ==
    LET path == IF Len(uri) >= 7 /\ SubSeq(uri, 1, 7) = <<102, 105, 108, 101, 58, 47, 47>> (* "file://" *)
                THEN SubSeq(uri, 8, Len(uri)) ELSE uri
        ends == {i \in 1..Len(path) : \A j \in i..Len(path) : path[j] = SLASH}
        last == IF ends = {} THEN Len(path) ELSE Min(ends) - 1
        slashes == {i \in 1..last : path[i] = SLASH}
        first == IF slashes = {} THEN 1
                 ELSE (CHOOSE i \in slashes : \A j \in slashes : j <= i) + 1
        name == SubSeq(path, first, last)
    IN  /\ Len(name) > Len(ext) + 1
        /\ SubSeq(name, Len(name) - Len(ext), Len(name)) = <<DOT>> \o ext

WithExtension(ext) == {i \in 1..Len(file_uris) : HasExtension(file_uris[i], ext)}

Tagged(tag) ==
    {i \in 1..Len(preprocessed[1].files) : preprocessed[1].files[i].language = <<tag>>}

\* C13: for every list of locators handed to preprocess_files, total_files
\* is the number of locators, tf_files the number of locators whose
\* extension is tf and tfvars_files the number whose extension is tfvars, so
\* that tf_files (tfvars_files) is the number of returned files tagged
\* terraform (terraform-vars), with or without a file:// prefix.
C13_CountsByExtension ==
    preprocessed # <<>> =>
        LET global_context == preprocessed[1].global_context
        IN  /\ global_context.total_files = Len(file_uris)
            /\ global_context.tf_files = Cardinality(WithExtension(<<116, 102>> (* "tf" *)))
            /\ global_context.tfvars_files = Cardinality(WithExtension(<<116, 102, 118, 97, 114, 115>> (* "tfvars" *)))
            /\ global_context.tf_files = Cardinality(Tagged("terraform"))
            /\ global_context.tfvars_files = Cardinality(Tagged("terraform-vars"))

\* What does hold: total_files is the number of locators, the tags follow
\* the extension with or without the prefix, and the two counts are those
\* of the locators with the extension that carry the file:// prefix.
CountsPrefixedOnly ==
    preprocessed # <<>> =>
        LET global_context == preprocessed[1].global_context
            prefixed == {i \in 1..Len(file_uris) :
                            Len(file_uris[i]) >= 7
                            /\ SubSeq(file_uris[i], 1, 7) = <<102, 105, 108, 101, 58, 47, 47>> (* "file://" *)}
        IN  /\ global_context.total_files = Len(file_uris)
            /\ Tagged("terraform") = WithExtension(<<116, 102>> (* "tf" *))
            /\ Tagged("terraform-vars") = WithExtension(<<116, 102, 118, 97, 114, 115>> (* "tfvars" *))
            /\ global_context.tf_files
                   = Cardinality(WithExtension(<<116, 102>> (* "tf" *)) \cap prefixed)
            /\ global_context.tfvars_files
                   = Cardinality(WithExtension(<<116, 102, 118, 97, 114, 115>> (* "tfvars" *)) \cap prefixed)

====
